---------------------------- MODULE Spec2Model ----------------------------
(***************************************************************************)
(* The three directory-scaffolding scripts create_dirs.py,                 *)
(* create_structure.py and create_test_dirs.py, run one after another on   *)
(* one Windows filesystem (the base path is a C:\ drive path, and the      *)
(* relative paths use backslash separators, so os.path is ntpath).         *)
(*                                                                         *)
(* A path is a record [drive, root, parts]; a filesystem entry on drive    *)
(* C: is named by the sequence of its segments below the drive root, <<>>  *)
(* being C:\ itself.  The filesystem maps every entry to "none", "dir" or  *)
(* "file"; denied is the set of directories in which the process is        *)
(* refused the creation of new entries.                                    *)
(***************************************************************************)
EXTENDS Naturals, Sequences, FiniteSets

VARIABLES
    fs,         \* the filesystem: entry -> "none" | "dir" | "file"
    denied,     \* directories where mkdir of a child is refused
    lists,      \* script -> its list literal
    script,     \* the script of the current (or last) process
    pc,         \* "idle" | "loop" | "raised" | "done"
    i,          \* index of the list entry the for loop is at
    exc,        \* exception in flight, or the one that ended the process
    out,        \* console output of the current process
    attempted,  \* entries handed to os.makedirs by the current process
    exit,       \* how the process ended: [code, how]
    nruns,      \* processes launched so far
    fsStart,    \* filesystem when the current process was launched
    fsEnd,      \* filesystem when the last process ended
    prev,       \* the process before the current one, and what the user
                \* changed between the two
    removed,    \* files deleted by the user since the last process ended
    granted     \* directories re-permitted since the last process ended

vars == <<fs, denied, lists, script, pc, i, exc, out, attempted, exit, nruns,
          fsStart, fsEnd, prev, removed, granted>>

----------------------------------------------------------------------------
(* Bounds of the model *)

MaxRuns == 2
MaxObstacles == 1
MaxLen == 2

----------------------------------------------------------------------------
(* Paths: the literals of the scripts *)

Scripts == {"create_dirs", "create_structure", "create_test_dirs"}

Rel(parts) == [drive |-> "", root |-> FALSE, parts |-> parts]

base_path ==
    [drive |-> "C:", root |-> TRUE,
     parts |-> <<"Users", "anupa", "copilot-hackathon">>]

MainPkg == <<"src", "main", "java", "com", "hackathon", "app">>
TestPkg == <<"src", "test", "java", "com", "hackathon", "app">>

directories ==
    << Rel(MainPkg),
       Rel(MainPkg \o <<"controller">>),
       Rel(MainPkg \o <<"service">>),
       Rel(MainPkg \o <<"repository">>),
       Rel(MainPkg \o <<"entity">>),
       Rel(MainPkg \o <<"dto">>),
       Rel(MainPkg \o <<"security">>),
       Rel(MainPkg \o <<"exception">>),
       Rel(<<"src", "main", "resources">>),
       Rel(TestPkg),
       Rel(<<".github", "workflows">>) >>

test_directories ==
    << Rel(TestPkg \o <<"controller">>),
       Rel(TestPkg \o <<"service">>),
       Rel(TestPkg \o <<"repository">>) >>

\* The list literal of each script.
ScriptLists ==
    [s \in Scripts |->
        IF s = "create_test_dirs" THEN test_directories ELSE directories]

\* The text of the final print of each script.
Summary(s) ==
    IF s = "create_test_dirs"
    THEN "\nTest subdirectories created!"
    ELSE "\nDirectory structure created successfully!"

\* Fault: create_dirs.py given the try/except and sys.exit of
\* create_structure.py.
HasTryAlso(s) == s \in {"create_structure", "create_dirs"}

\* Only create_structure.py wraps its loop in try/except and calls sys.exit.
HasTry(s) == s = "create_structure"

\* ntpath.join(path, p): a rooted p or one on another drive replaces path,
\* any other p is appended below it.
join(path, p) ==
    IF p.root
    THEN [drive |-> IF p.drive # "" THEN p.drive ELSE path.drive,
          root |-> TRUE, parts |-> p.parts]
    ELSE IF p.drive # "" /\ p.drive # path.drive
    THEN p
    ELSE [drive |-> path.drive, root |-> path.root,
          parts |-> path.parts \o p.parts]

\* ntpath.split: (head, tail); the tail of the drive root is empty.
SplitHead(name) ==
    IF Len(name.parts) = 0 THEN name
    ELSE [name EXCEPT !.parts = SubSeq(name.parts, 1, Len(name.parts) - 1)]

SplitTail(name) ==
    IF Len(name.parts) = 0 THEN "" ELSE name.parts[Len(name.parts)]

Prefixes(p) == {SubSeq(p, 1, k) : k \in 0..Len(p)}

Range(s) == {s[k] : k \in 1..Len(s)}

----------------------------------------------------------------------------
(* The generalised inputs: short lists over a few of the relative paths *)

Pool ==
    { Rel(<<".github">>), Rel(<<".github", "workflows">>), Rel(<<"src">>) }

RECURSIVE SeqsUpTo(_, _)
SeqsUpTo(S, n) ==
    IF n = 0 THEN {<<>>}
    ELSE LET T == SeqsUpTo(S, n - 1)
         IN  T \cup {Append(t, x) : t \in {u \in T : Len(u) = n - 1}, x \in S}

PoolLists == SeqsUpTo(Pool, MaxLen)

----------------------------------------------------------------------------
(* The filesystem *)

\* Entries no script names: a sibling of the base location and a child of it.
Outsiders ==
    { <<"Users", "Public">>,
      <<"Users", "anupa", "copilot-hackathon", "target">> }

Nodes ==
    UNION {Prefixes(join(base_path, d).parts) :
              d \in Range(directories) \cup Range(test_directories) \cup Pool}
    \cup Outsiders

Parent(n) == SubSeq(n, 1, Len(n) - 1)

\* os.path.exists / os.path.isdir of a path on drive C:.
exists(f, name) == name.drive = "C:" /\ f[name.parts] # "none"
isdir(f, name) == name.drive = "C:" /\ f[name.parts] = "dir"

\* Fault: a mkdir that replaces a plain file by the directory.
mkdirOverwrite(f, d, name) ==
    LET n == name.parts
    IN  IF name.drive = "C:" /\ Len(n) > 0 /\ f[Parent(n)] = "dir"
           /\ f[n] # "dir" /\ Parent(n) \notin d
        THEN [fs |-> [f EXCEPT ![n] = "dir"], err |-> "none", at |-> n]
        ELSE [fs |-> f, err |-> "FileExistsError", at |-> n]

\* os.mkdir(name): creates one directory, or raises an OSError.  The drive
\* root cannot be created; a taken name is FileExistsError; a parent that is
\* missing or is a file is FileNotFoundError (ERROR_PATH_NOT_FOUND); a parent
\* that refuses new entries is PermissionError.
mkdir(f, d, name) ==
    LET n == name.parts
        raise(e) == [fs |-> f, err |-> e, at |-> n]
    IN  IF name.drive # "C:" THEN raise("FileNotFoundError")
        ELSE IF Len(n) = 0
        THEN raise(IF f[n] = "dir" THEN "PermissionError" ELSE "FileNotFoundError")
        ELSE IF f[Parent(n)] # "dir" THEN raise("FileNotFoundError")
        ELSE IF f[n] # "none" THEN raise("FileExistsError")
        ELSE IF Parent(n) \in d THEN raise("PermissionError")
        ELSE [fs |-> [f EXCEPT ![n] = "dir"], err |-> "none", at |-> n]

\* Fault: exist_ok swallowing the leaf's error without the isdir test.
makedirsLeafBlind(up, d, name, exist_ok) ==
    IF up.err \notin {"none", "FileExistsError"} THEN up
    ELSE LET m == mkdir(up.fs, d, name)
         IN  IF m.err = "none" \/ ~exist_ok THEN m
             ELSE [fs |-> up.fs, err |-> "none", at |-> name.parts]

\* os.makedirs(name, exist_ok): creates the missing ancestors first (a
\* FileExistsError of that recursion is swallowed, any other error
\* propagates), then the leaf; an OSError of the leaf's mkdir is swallowed
\* only when exist_ok is set and the leaf is a directory.
\* up is the outcome of creating the ancestors.
makedirsLeaf(up, d, name, exist_ok) ==
    IF up.err \notin {"none", "FileExistsError"} THEN up
    ELSE LET m == mkdir(up.fs, d, name)
         IN  IF m.err = "none" THEN m
             ELSE IF ~exist_ok \/ ~isdir(up.fs, name) THEN m
             ELSE [fs |-> up.fs, err |-> "none", at |-> name.parts]

\* Fault: os.mkdir in place of os.makedirs, no ancestor is created.
makedirsNoParents(f, d, name, exist_ok) ==
    LET m == mkdir(f, d, name)
    IN  IF m.err = "none" THEN m
        ELSE IF ~exist_ok \/ ~isdir(f, name) THEN m
        ELSE [fs |-> f, err |-> "none", at |-> name.parts]

RECURSIVE makedirs(_, _, _, _)
makedirs(f, d, name, exist_ok) ==
    makedirsLeaf(
        IF SplitTail(name) # "" /\ ~exists(f, SplitHead(name))
        THEN makedirs(f, d, SplitHead(name), exist_ok)
        ELSE [fs |-> f, err |-> "none", at |-> name.parts],
        d, name, exist_ok)

\* Fault: a bare except (BaseException), which catches SystemExit too.
IsBaseException(type) == type # "none"

\* The classes `except Exception` catches: every OSError, not SystemExit.
IsException(type) ==
    type \in {"FileExistsError", "FileNotFoundError", "PermissionError"}

----------------------------------------------------------------------------
(* Console lines and exit records *)

NoPath == [drive |-> "", root |-> FALSE, parts |-> <<>>]

CreatedLine(full_path) == [kind |-> "Created", path |-> full_path, text |-> ""]
SummaryLine(s) == [kind |-> "Summary", path |-> NoPath, text |-> Summary(s)]
ErrorLine(e) ==
    [kind |-> "Error", path |-> [NoPath EXCEPT !.parts = e.at], text |-> e.type]

NoExc == [type |-> "none", code |-> 0, at |-> <<>>]
Running == [code |-> 0, how |-> "running"]
NoPrev ==
    [valid |-> FALSE, script |-> "create_dirs", code |-> 0, how |-> "running",
     fsStart |-> [n \in Nodes |-> "none"], fsEnd |-> [n \in Nodes |-> "none"],
     removed |-> {}, granted |-> {}]

----------------------------------------------------------------------------
(* Initial states *)

RECURSIVE SubsetsUpTo(_, _)
SubsetsUpTo(S, k) ==
    IF k = 0 THEN {{}}
    ELSE LET T == SubsetsUpTo(S, k - 1)
         IN  T \cup {t \cup {x} : t \in T, x \in S}

\* A tree of directories (the ancestors of one entry, or nothing at all: no
\* drive), with at most MaxObstacles obstacles: a plain file in one of the
\* directories, or a directory that refuses new entries.
InitFS(dirs, obstacles) ==
    [n \in Nodes |->
        IF n \in dirs THEN "dir"
        ELSE IF <<"file", n>> \in obstacles THEN "file"
        ELSE "none"]

ObstacleChoices(dirs) ==
    {<<"file", n>> : n \in {m \in Nodes \ dirs : Len(m) > 0 /\ Parent(m) \in dirs}}
    \cup {<<"deny", n>> : n \in dirs}

\* The deepest directory that exists at the start: none (no drive C:), the
\* drive root, the parent of the base location, the base location, or a
\* directory below it.
Below(parts) == join(base_path, Rel(parts)).parts

NoDrive == <<"no drive">>

Seeds ==
    { NoDrive, <<>>, Parent(base_path.parts), base_path.parts,
      Below(MainPkg \o <<"controller">>), Below(TestPkg),
      Below(<<"target">>) }

ListSeeds == { Parent(base_path.parts), base_path.parts }

InitCommon(seeds) ==
    /\ \E seed \in seeds :
          LET dirs == IF seed \in Nodes THEN Prefixes(seed) ELSE {}
          IN  \E obstacles \in SubsetsUpTo(ObstacleChoices(dirs), MaxObstacles) :
                /\ fs = InitFS(dirs, obstacles)
                /\ denied = {n \in dirs : <<"deny", n>> \in obstacles}
    /\ script = "create_dirs"
    /\ pc = "idle"
    /\ i = 1
    /\ exc = NoExc
    /\ out = <<>>
    /\ attempted = <<>>
    /\ exit = Running
    /\ nruns = 0
    /\ fsStart = fs
    /\ fsEnd = fs
    /\ prev = NoPrev
    /\ removed = {}
    /\ granted = {}

Init ==
    /\ lists = ScriptLists
    /\ InitCommon(Seeds)

\* The scaffolder on arbitrary short lists: every variant is given the same
\* list, or the scripts keep their own.
InitList ==
    /\ lists \in {ScriptLists} \cup {[s \in Scripts |-> L] : L \in PoolLists}
    /\ InitCommon(ListSeeds)

----------------------------------------------------------------------------
(* The operations *)

\* Fault: a script that creates the base location before its loop.
LaunchEnsuringBase(s) ==
    /\ pc \in {"idle", "done"}
    /\ nruns < MaxRuns
    /\ script' = s
    /\ pc' = "loop"
    /\ i' = 1
    /\ exc' = NoExc
    /\ out' = <<>>
    /\ attempted' = <<>>
    /\ exit' = Running
    /\ nruns' = nruns + 1
    /\ fsStart' = fs
    /\ fs' = makedirs(fs, denied, base_path, TRUE).fs
    /\ prev' = IF pc = "idle" THEN NoPrev
               ELSE [valid |-> TRUE, script |-> script, code |-> exit.code,
                     how |-> exit.how, fsStart |-> fsStart, fsEnd |-> fsEnd,
                     removed |-> removed, granted |-> granted]
    /\ removed' = {}
    /\ granted' = {}
    /\ UNCHANGED <<denied, lists, fsEnd>>

\* The user starts one of the scripts (python create_xxx.py).
Launch(s) ==
    /\ pc \in {"idle", "done"}
    /\ nruns < MaxRuns
    /\ script' = s
    /\ pc' = "loop"
    /\ i' = 1
    /\ exc' = NoExc
    /\ out' = <<>>
    /\ attempted' = <<>>
    /\ exit' = Running
    /\ nruns' = nruns + 1
    /\ fsStart' = fs
    /\ prev' = IF pc = "idle" THEN NoPrev
               ELSE [valid |-> TRUE, script |-> script, code |-> exit.code,
                     how |-> exit.how, fsStart |-> fsStart, fsEnd |-> fsEnd,
                     removed |-> removed, granted |-> granted]
    /\ removed' = {}
    /\ granted' = {}
    /\ UNCHANGED <<fs, denied, lists, fsEnd>>

\* Fault: a loop body that ignores a failed creation and goes on.
IterateBodySwallow(full_path, r) ==
    /\ attempted' = Append(attempted, full_path.parts)
    /\ fs' = r.fs
    /\ out' = IF r.err = "none" THEN Append(out, CreatedLine(full_path)) ELSE out
    /\ i' = i + 1
    /\ UNCHANGED <<pc, exc>>

\* Fault: a loop body that undoes the run's directories when one fails.
IterateBodyRollback(full_path, r) ==
    /\ attempted' = Append(attempted, full_path.parts)
    /\ IF r.err = "none"
       THEN /\ fs' = r.fs
            /\ out' = Append(out, CreatedLine(full_path))
            /\ i' = i + 1
            /\ UNCHANGED <<pc, exc>>
       ELSE /\ fs' = fsStart
            /\ pc' = "raised"
            /\ exc' = [type |-> r.err, code |-> 1, at |-> r.at]
            /\ UNCHANGED <<out, i>>

\* Fault: a loop body that prints before it creates.
IterateBodyPrintFirst(full_path, r) ==
    /\ attempted' = Append(attempted, full_path.parts)
    /\ fs' = r.fs
    /\ out' = Append(out, CreatedLine(full_path))
    /\ IF r.err = "none"
       THEN /\ i' = i + 1
            /\ UNCHANGED <<pc, exc>>
       ELSE /\ pc' = "raised"
            /\ exc' = [type |-> r.err, code |-> 1, at |-> r.at]
            /\ UNCHANGED i

\* One pass of the for loop body: join, makedirs, print.
IterateBody(full_path, r) ==
    /\ attempted' = Append(attempted, full_path.parts)
    /\ fs' = r.fs
    /\ IF r.err = "none"
       THEN /\ out' = Append(out, CreatedLine(full_path))
            /\ i' = i + 1
            /\ UNCHANGED <<pc, exc>>
       ELSE /\ pc' = "raised"
            /\ exc' = [type |-> r.err, code |-> 1, at |-> r.at]
            /\ UNCHANGED <<out, i>>

\* Fault: os.makedirs called without exist_ok.
IterateNoExistOk ==
    /\ pc = "loop"
    /\ i <= Len(lists[script])
    /\ LET full_path == join(base_path, lists[script][i])
       IN  IterateBody(full_path, makedirs(fs, denied, full_path, FALSE))
    /\ UNCHANGED <<denied, lists, script, exit, nruns, fsStart, fsEnd, prev,
                   removed, granted>>

Iterate ==
    /\ pc = "loop"
    /\ i <= Len(lists[script])
    /\ LET full_path == join(base_path, lists[script][i])
       IN  IterateBody(full_path, makedirs(fs, denied, full_path, TRUE))
    /\ UNCHANGED <<denied, lists, script, exit, nruns, fsStart, fsEnd, prev,
                   removed, granted>>

\* After the loop: the summary print, then sys.exit(0) in create_structure.py
\* (SystemExit raised inside the try block) or the end of the module.
Finish ==
    /\ pc = "loop"
    /\ i > Len(lists[script])
    /\ out' = Append(out, SummaryLine(script))
    /\ IF HasTry(script)
       THEN /\ pc' = "raised"
            /\ exc' = [type |-> "SystemExit", code |-> 0, at |-> <<>>]
            /\ UNCHANGED <<exit, fsEnd>>
       ELSE /\ pc' = "done"
            /\ exit' = [code |-> 0, how |-> "fallthrough"]
            /\ fsEnd' = fs
            /\ UNCHANGED exc
    /\ UNCHANGED <<fs, denied, lists, script, i, attempted, nruns, fsStart,
                   prev, removed, granted>>

\* Does the except clause of script s catch exception e?
Catches(s, e) == HasTry(s) /\ IsException(e.type)

\* An exception leaves the loop: the except clause of create_structure.py
\* prints it and exits with 1; anything else reaches the top level, where
\* SystemExit ends the process with its code and any other exception with a
\* traceback and status 1.
Unwind ==
    /\ pc = "raised"
    /\ pc' = "done"
    /\ fsEnd' = fs
    /\ IF Catches(script, exc)
       THEN /\ out' = Append(out, ErrorLine(exc))
            /\ exit' = [code |-> 1, how |-> "sys.exit"]
       ELSE /\ out' = out
            /\ exit' = IF exc.type = "SystemExit"
                       THEN [code |-> exc.code, how |-> "sys.exit"]
                       ELSE [code |-> 1, how |-> "traceback"]
    /\ UNCHANGED <<fs, denied, lists, script, i, exc, attempted, nruns,
                   fsStart, prev, removed, granted>>

\* Between two runs the user deletes a plain file that is in the way.
DeleteFile(n) ==
    /\ pc = "done"
    /\ exit.code # 0
    /\ nruns < MaxRuns
    /\ fs[n] = "file"
    /\ fs' = [fs EXCEPT ![n] = "none"]
    /\ removed' = removed \cup {n}
    /\ UNCHANGED <<denied, lists, script, pc, i, exc, out, attempted, exit,
                   nruns, fsStart, fsEnd, prev, granted>>

\* Between two runs the user is given write permission on a directory.
GrantAccess(n) ==
    /\ pc = "done"
    /\ exit.code # 0
    /\ nruns < MaxRuns
    /\ n \in denied
    /\ denied' = denied \ {n}
    /\ granted' = granted \cup {n}
    /\ UNCHANGED <<fs, lists, script, pc, i, exc, out, attempted, exit,
                   nruns, fsStart, fsEnd, prev, removed>>

Next ==
    \/ \E s \in Scripts : Launch(s)
    \/ Iterate
    \/ Finish
    \/ Unwind
    \/ \E n \in Nodes : DeleteFile(n)
    \/ \E n \in Nodes : GrantAccess(n)

Spec == Init /\ [][Next]_vars

SpecList == InitList /\ [][Next]_vars

TypeOK ==
    /\ fs \in [Nodes -> {"none", "dir", "file"}]
    /\ denied \subseteq Nodes
    /\ script \in Scripts
    /\ pc \in {"idle", "loop", "raised", "done"}
    /\ i \in 1..(Len(lists[script]) + 1)
    /\ nruns \in 0..MaxRuns


----------------------------------------------------------------------------
(* Vocabulary of the properties *)

CurList == lists[script]

FullPath(L, j) == join(base_path, L[j])

\* Every entry a run over L must leave as a directory: the resolved paths
\* and all their ancestor segments, the base location and the drive root
\* included.
Needed(L) == UNION {Prefixes(FullPath(L, j).parts) : j \in 1..Len(L)}

\* The files that occupy the path name or one of its ancestor segments.
FilesOn(f, name) == {n \in Prefixes(name.parts) : f[n] = "file"}

IsCreated(l) == l.kind = "Created"
IsSummary(l) == l.kind = "Summary"
IsError(l) == l.kind = "Error"

SummaryPrinted == SelectSeq(out, IsSummary) # <<>>

\* The filesystem as the current process left it (the user may have changed
\* it since the process ended).
RunFs == IF pc = "done" THEN fsEnd ELSE fs

Succeeded == pc = "done" /\ exit.code = 0

\* A directory creation of the current process failed.
Crashed == pc \in {"raised", "done"} /\ IsException(exc.type)

\* The loop of the scripts as a function: what one uninterrupted run over
\* the list L does to filesystem f.
RECURSIVE RunAll(_, _, _)
RunAll(f, d, L) ==
    IF L = <<>> THEN [fs |-> f, err |-> "none", at |-> <<>>]
    ELSE LET r == makedirs(f, d, join(base_path, Head(L)), TRUE)
         IN  IF r.err # "none" THEN r ELSE RunAll(r.fs, d, Tail(L))

\* Filesystem f without the files the user deleted.
Clear(f, gone) == [n \in Nodes |-> IF n \in gone THEN "none" ELSE f[n]]

Reverse(L) == [k \in 1..Len(L) |-> L[Len(L) + 1 - k]]
Rotate(L, r) == [k \in 1..Len(L) |-> L[((k + r - 1) % Len(L)) + 1]]

\* Reorderings of L: all of them for a short list, the reversal and the
\* rotations for a long one.
Reorderings(L) ==
    IF Len(L) <= MaxLen
    THEN {[k \in 1..Len(L) |-> L[p[k]]] :
            p \in {q \in [1..Len(L) -> 1..Len(L)] :
                     \A a, b \in 1..Len(L) : q[a] = q[b] => a = b}}
    ELSE {Reverse(L)} \cup {Rotate(L, r) : r \in 1..Len(L)}

----------------------------------------------------------------------------
(* C1: once a run has printed its summary line (the loop finished), every  *)
(* resolved path base_path\l of the script's list, and every ancestor      *)
(* segment of it up to the base location and the drive root, is a          *)
(* directory.                                                              *)
C1_SuccessMeansAllDirectories ==
    (SummaryPrinted \/ Succeeded) =>
        \A n \in Needed(CurList) : RunFs[n] = "dir"

\* A successful run that had to create the base location itself.
C1_Witness ==
    /\ Succeeded
    /\ SummaryPrinted
    /\ fsStart[base_path.parts] = "none"
    /\ fsEnd[base_path.parts] = "dir"

(* C2: a second run on the same list leaves the filesystem as the first    *)
(* run left it and ends the same way; after a successful first run it      *)
(* creates nothing and succeeds; a re-run after a failure, the user having *)
(* deleted files in between, ends in the state a single run reaches from   *)
(* the first run's starting state without those files.                     *)
C2_Idempotent ==
    (pc = "done" /\ prev.valid /\ lists[prev.script] = CurList) =>
        /\ (prev.removed = {} /\ prev.granted = {}) =>
              /\ fsEnd = prev.fsEnd
              /\ (prev.code = 0) <=> (exit.code = 0)
              /\ prev.code = 0 => fsEnd = fsStart
        /\ granted = {} =>
              fsEnd = RunAll(Clear(prev.fsStart, prev.removed), denied, CurList).fs

\* A run that created some directories and then failed on a file, the file
\* deleted, and the re-run of the same list succeeding.
C2_Witness ==
    /\ pc = "done" /\ prev.valid /\ lists[prev.script] = CurList
    /\ prev.code # 0
    /\ prev.fsEnd # prev.fsStart
    /\ prev.removed # {}
    /\ exit.code = 0
    /\ fsEnd # fsStart

(* C3: when the entry being processed has a plain file at its path or at   *)
(* an ancestor segment, its creation raises a filesystem error and the     *)
(* file stays a file; a run whose list has such an entry does not end in   *)
(* success, prints no summary, and leaves the file in place.               *)
C3_FileObstacleFails ==
    /\ [][(pc = "loop" /\ i <= Len(CurList)
             /\ FilesOn(fs, FullPath(CurList, i)) # {})
          => /\ pc' = "raised"
             /\ IsException(exc'.type)
             /\ \A n \in FilesOn(fs, FullPath(CurList, i)) : fs'[n] = "file"]_vars
    /\ [](\A j \in 1..Len(CurList) :
            (pc = "done" /\ FilesOn(fsStart, FullPath(CurList, j)) # {})
            => /\ exit.code # 0
               /\ ~SummaryPrinted
               /\ \A n \in FilesOn(fsStart, FullPath(CurList, j)) :
                     fsEnd[n] = "file")

\* A run ended by the target of an entry being a plain file.
C3_Witness ==
    /\ pc = "done"
    /\ exit.code # 0
    /\ exc.type = "FileExistsError"
    /\ exc.at = FullPath(CurList, i).parts
    /\ fsEnd[exc.at] = "file"

(* C4: when the creation of entry i fails, makedirs has been called once   *)
(* for each of the entries 1..i and for no other, the entries before i are *)
(* directories, no summary line is printed and the process ends with a     *)
(* non-zero status.                                                        *)
C4_StopsAtFirstFailure ==
    Crashed =>
        /\ i <= Len(CurList)
        /\ attempted = [j \in 1..i |-> FullPath(CurList, j).parts]
        /\ \A j \in 1..(i - 1) : fs[FullPath(CurList, j).parts] = "dir"
        /\ ~SummaryPrinted
        /\ pc = "done" => exit.code # 0

\* A failed run that had created an earlier entry before it failed.
C4_Witness ==
    /\ Crashed
    /\ pc = "done"
    /\ i > 1
    /\ \E j \in 1..(i - 1) : fsStart[FullPath(CurList, j).parts] = "none"

(* C5: create_structure.py ends through sys.exit, with status 0 exactly    *)
(* when every creation succeeded (summary printed, no Error line) and with *)
(* status 1 exactly when one failed (one Error line, printed last, no      *)
(* summary); the other two scripts never print an Error line and end a     *)
(* failed run by an uncaught exception.                                    *)
C5_ExitStatus ==
    pc = "done" =>
        IF script = "create_structure"
        THEN /\ exit.how = "sys.exit"
             /\ exit.code \in {0, 1}
             /\ (exit.code = 0) <=> (i > Len(CurList))
             /\ (exit.code = 1) <=> Crashed
             /\ exit.code = 0 =>
                   SummaryPrinted /\ SelectSeq(out, IsError) = <<>>
             /\ exit.code = 1 =>
                   /\ ~SummaryPrinted
                   /\ Len(SelectSeq(out, IsError)) = 1
                   /\ IsError(out[Len(out)])
        ELSE /\ SelectSeq(out, IsError) = <<>>
             /\ Crashed => exit.how = "traceback" /\ exit.code # 0
             /\ (exit.code = 0) <=> (i > Len(CurList))

\* create_structure.py ended with status 1 after a failed creation.
C5_Witness ==
    /\ pc = "done"
    /\ script = "create_structure"
    /\ exit.code = 1
    /\ Crashed

C8_OutputOrder ==
    /\ SelectSeq(out, IsCreated)
         = [j \in 1..(i - 1) |-> CreatedLine(FullPath(CurList, j))]
    /\ \A j \in 1..(i - 1) :
         /\ out[j] = CreatedLine(FullPath(CurList, j))
         /\ out[j].path.drive = "C:" /\ out[j].path.root
         /\ fs[out[j].path.parts] = "dir"
    /\ SummaryPrinted <=> (pc \in {"raised", "done"} /\ ~Crashed)
    /\ SummaryPrinted =>
         /\ i = Len(CurList) + 1
         /\ Len(SelectSeq(out, IsSummary)) = 1
         /\ out[i] = SummaryLine(script)
    /\ Succeeded => Len(out) = Len(CurList) + 1
    /\ Crashed => Len(SelectSeq(out, IsCreated)) < Len(CurList)

\* A failed run that printed a Created line for an entry that succeeded and
\* none for the one that failed.
C8_Witness ==
    /\ Crashed
    /\ pc = "done"
    /\ i > 1
    /\ Len(SelectSeq(out, IsCreated)) = i - 1

(* C9: a run never changes or removes an entry that existed when it        *)
(* started, and every entry it adds is a directory at a resolved path of   *)
(* its list or at an ancestor segment of one.                              *)
C9_OnlyAddsNeededDirectories ==
    \A n \in Nodes :
        /\ fsStart[n] # "none" => RunFs[n] = fsStart[n]
        /\ (fsStart[n] = "none" /\ RunFs[n] # "none") =>
              (RunFs[n] = "dir" /\ n \in Needed(CurList))

\* A finished run that added directories beside a file and a directory it
\* did not name.
C9_Witness ==
    /\ pc = "done"
    /\ fsEnd # fsStart
    /\ \E n \in Nodes : fsStart[n] = "file"
    /\ \E n \in Outsiders : fsStart[n] = "dir"

(* C10: when a run succeeds, a run over any reordering of its list from    *)
(* the same starting state succeeds too and ends in the same state; two    *)
(* successful runs one after the other end in the state the two reach in   *)
(* the other order; and create_test_dirs.py leaves the base test package   *)
(* a directory.                                                            *)
C10_OrderIndependent ==
    Succeeded =>
        /\ \A P \in Reorderings(CurList) :
              RunAll(fsStart, denied, P)
                 = [fs |-> fsEnd, err |-> "none", at |-> <<>>]
        /\ (prev.valid /\ prev.code = 0) =>
              RunAll(RunAll(prev.fsStart, denied, CurList).fs, denied,
                     lists[prev.script])
                 = [fs |-> fsEnd, err |-> "none", at |-> <<>>]
        /\ (lists = ScriptLists /\ script = "create_test_dirs") =>
              fsEnd[Below(TestPkg)] = "dir"

\* A successful run that created a child before its parent's own entry.
C10_Witness ==
    /\ Succeeded
    /\ CurList = <<Rel(<<".github", "workflows">>), Rel(<<".github">>)>>
    /\ fsStart[Below(<<".github">>)] = "none"

=============================================================================
